---------------------------- MODULE Spec2Model ----------------------------
(***************************************************************************)
(* A model of the three digest functions sha1 (src/sha-1.py), sha256       *)
(* (src/sha-256.py) and sha512 (src/sha-512.py) and of the rotation        *)
(* helpers of src/utils.py.                                                *)
(*                                                                         *)
(* Python integers are unbounded and signed, and the code relies on        *)
(* explicit masks to stay within a word.  An integer is therefore modelled *)
(* as an infinite two's-complement bit string: a record                    *)
(*     [exc |-> "", neg |-> sign, bits |-> <<b1, ..., bn>>]                *)
(* with b1 the least significant bit, every bit above bn equal to the      *)
(* sign, and bn different from the sign (so that equal integers are equal  *)
(* records).  A value whose exc field is not "" stands for an expression   *)
(* whose evaluation raised that exception; every operator passes the       *)
(* first exception of its operands on, as Python's evaluation does.        *)
(*                                                                         *)
(* A bytes/bytearray object is modelled as a run-length list: a sequence   *)
(* of runs [b |-> byte, n |-> count] in which neighbouring runs hold       *)
(* different bytes, so that a 512 MB message is one run.                   *)
(***************************************************************************)
EXTENDS Integers, Sequences, FiniteSets, TLC

Max(p, q) == IF p >= q THEN p ELSE q
Min(p, q) == IF p <= q THEN p ELSE q

(***************************************************************************)
(* Python int                                                              *)
(***************************************************************************)
NoExc == ""

Raise(name) == [exc |-> name, neg |-> FALSE, bits |-> <<>>]

SignBit(x) == IF x.neg THEN 1 ELSE 0

\* bit i (1 = least significant) of the infinite two's-complement string
Bit(x, i) == IF i <= Len(x.bits) THEN x.bits[i] ELSE SignBit(x)

\* the highest position up to j whose bit differs from the sign s, or 0
RECURSIVE TopBit(_, _, _)
TopBit(bs, s, j) == IF j = 0 \/ bs[j] # s THEN j ELSE TopBit(bs, s, j - 1)

\* the integer with sign s (0 or 1) whose low bits are bs: the canonical record
Norm(s, bs) == [exc |-> NoExc, neg |-> (s = 1), bits |-> SubSeq(bs, 1, TopBit(bs, s, Len(bs)))]

Zero == Norm(0, <<>>)

\* number of binary digits of the natural number n
RECURSIVE BitLength(_)
BitLength(n) == IF n = 0 THEN 0 ELSE 1 + BitLength(n \div 2)

\* a small natural number (an index, a byte, a length) as a Python int
FromNat(n) == Norm(0, [j \in 1..BitLength(n) |-> (n \div 2^(j-1)) % 2])

\* a small non-negative Python int as a natural number
RECURSIVE BitsToNat(_)
BitsToNat(bs) == IF bs = <<>> THEN 0 ELSE bs[1] + 2 * BitsToNat(Tail(bs))

ToNat(x) == BitsToNat(x.bits)

\* a 32-bit literal 0xHHHHLLLL given by its two 16-bit halves
W32(hi, lo) == Norm(0, [j \in 1..32 |-> IF j <= 16 THEN (lo \div 2^(j-1)) % 2
                                                    ELSE (hi \div 2^(j-17)) % 2])

\* a 64-bit literal given by its four 16-bit quarters, most significant first
W64(q3, q2, q1, q0) ==
    Norm(0, [j \in 1..64 |-> IF j <= 16 THEN (q0 \div 2^(j-1)) % 2
                             ELSE IF j <= 32 THEN (q1 \div 2^(j-17)) % 2
                             ELSE IF j <= 48 THEN (q2 \div 2^(j-33)) % 2
                             ELSE (q3 \div 2^(j-49)) % 2])

\* the truth tables of &, | and ^: the result for the bits p and q is at 2p + q + 1
AndTable == <<0, 0, 0, 1>>
OrTable  == <<0, 1, 1, 1>>
XorTable == <<0, 1, 1, 0>>

\* a bitwise binary operator of Python, applied to the infinite bit strings
Bitwise(table, x, y) ==
    IF x.exc # NoExc THEN x
    ELSE IF y.exc # NoExc THEN y
    ELSE LET n == Max(Len(x.bits), Len(y.bits))
         IN  Norm(table[2 * SignBit(x) + SignBit(y) + 1],
                  [j \in 1..n |-> table[2 * Bit(x, j) + Bit(y, j) + 1]])

And(x, y) == Bitwise(AndTable, x, y)      \* x & y
Or(x, y)  == Bitwise(OrTable, x, y)       \* x | y
Xor(x, y) == Bitwise(XorTable, x, y)      \* x ^ y

\* ~x
Not(x) ==
    IF x.exc # NoExc THEN x
    ELSE [exc |-> NoExc, neg |-> ~x.neg, bits |-> [j \in 1..Len(x.bits) |-> 1 - x.bits[j]]]

\* x >> k: Python raises ValueError for a negative shift count
Shr(x, k) ==
    IF x.exc # NoExc THEN x
    ELSE IF k < 0 THEN Raise("ValueError")
    ELSE Norm(SignBit(x), SubSeq(x.bits, k + 1, Len(x.bits)))

\* x << k: Python raises ValueError for a negative shift count
Shl(x, k) ==
    IF x.exc # NoExc THEN x
    ELSE IF k < 0 THEN Raise("ValueError")
    ELSE Norm(SignBit(x), [j \in 1..(Len(x.bits) + k) |-> IF j <= k THEN 0 ELSE x.bits[j - k]])

\* the sum bits of x + y over n positions, by ripple carry
RECURSIVE Ripple(_, _, _, _, _, _)
Ripple(x, y, n, j, carry, acc) ==
    IF j > n THEN acc
    ELSE LET t == Bit(x, j) + Bit(y, j) + carry
         IN  Ripple(x, y, n, j + 1, t \div 2, Append(acc, t % 2))

\* x + y
Add(x, y) ==
    IF x.exc # NoExc THEN x
    ELSE IF y.exc # NoExc THEN y
    ELSE LET n  == Max(Len(x.bits), Len(y.bits)) + 2
             bs == Ripple(x, y, n, 1, 0, <<>>)
         IN  Norm(bs[n], bs)

\* x * y for a non-negative y, by shift and add
RECURSIVE MulFrom(_, _, _)
MulFrom(x, y, j) ==
    IF j > Len(y.bits) THEN Zero
    ELSE IF y.bits[j] = 1 THEN Add(Shl(x, j - 1), MulFrom(x, y, j + 1))
    ELSE MulFrom(x, y, j + 1)

Mul(x, y) ==
    IF x.exc # NoExc THEN x
    ELSE IF y.exc # NoExc THEN y
    ELSE MulFrom(x, y, 1)

\* x % 2^k: the low k bits (Python's % with a positive modulus is non-negative)
ModPow2(x, k) ==
    IF x.exc # NoExc THEN x
    ELSE Norm(0, [j \in 1..k |-> Bit(x, j)])

\* a list of expressions evaluated left to right: the first exception, or NoExc
RECURSIVE FirstExc(_)
FirstExc(xs) ==
    IF xs = <<>> THEN NoExc
    ELSE IF Head(xs).exc # NoExc THEN Head(xs).exc
    ELSE FirstExc(Tail(xs))

(***************************************************************************)
(* bytes and bytearray                                                     *)
(***************************************************************************)
\* len(ba)
RECURSIVE BLen(_)
BLen(ba) == IF ba = <<>> THEN 0 ELSE Head(ba).n + BLen(Tail(ba))

\* ba.append(byte)
BAppend(ba, byte) ==
    IF ba # <<>> /\ ba[Len(ba)].b = byte
    THEN [ba EXCEPT ![Len(ba)].n = @ + 1]
    ELSE Append(ba, [b |-> byte, n |-> 1])

\* ba.extend(bs) / ba += bs, for a byte string bs given byte by byte
RECURSIVE BExtend(_, _)
BExtend(ba, bs) == IF bs = <<>> THEN ba ELSE BExtend(BAppend(ba, Head(bs)), Tail(bs))

\* ba[idx], idx counted from 0 and less than len(ba)
RECURSIVE BAt(_, _)
BAt(ba, idx) == IF idx < Head(ba).n THEN Head(ba).b ELSE BAt(Tail(ba), idx - Head(ba).n)

\* ba[lo:hi], byte by byte: a slice that runs past the end is cut short
BSlice(ba, lo, hi) == [k \in 1..Max(0, Min(hi, BLen(ba)) - lo) |-> BAt(ba, lo + k - 1)]

\* the bytes object holding the bytes bs
Bytes(bs) == BExtend(<<>>, bs)

\* the bytes object of n bytes, all equal to byte
Fill(byte, n) == IF n = 0 THEN <<>> ELSE <<[b |-> byte, n |-> n]>>

(***************************************************************************)
(* struct                                                                  *)
(***************************************************************************)
\* byte k (1 = most significant) of the nbytes-byte big-endian encoding of v
BigEndianByte(v, nbytes, k) ==
    LET low == 8 * (nbytes - k)
    IN  Bit(v, low + 1) + 2 * Bit(v, low + 2) + 4 * Bit(v, low + 3) + 8 * Bit(v, low + 4)
        + 16 * Bit(v, low + 5) + 32 * Bit(v, low + 6) + 64 * Bit(v, low + 7) + 128 * Bit(v, low + 8)

\* struct.pack('>Q', v) and struct.pack('>L', v): struct.error when v is out of range
pack(v, nbytes) ==
    IF v.exc # NoExc THEN [exc |-> v.exc, val |-> <<>>]
    ELSE IF v.neg \/ Len(v.bits) > 8 * nbytes THEN [exc |-> "struct.error", val |-> <<>>]
    ELSE [exc |-> NoExc, val |-> [k \in 1..nbytes |-> BigEndianByte(v, nbytes, k)]]

\* word k (counted from 0) of a buffer of big-endian words of nbytes bytes each
BigEndianWord(buf, nbytes, k) ==
    Norm(0, [p \in 1..(8 * nbytes) |->
               (buf[(k + 1) * nbytes - ((p - 1) \div 8)] \div 2^((p - 1) % 8)) % 2])

\* struct.unpack('>16L', buf) and struct.unpack('>16Q', buf): struct.error unless
\* the buffer holds exactly 16 words
unpack16(buf, nbytes) ==
    IF Len(buf) # 16 * nbytes THEN [exc |-> "struct.error", val |-> <<>>]
    ELSE [exc |-> NoExc, val |-> [k \in 1..16 |-> BigEndianWord(buf, nbytes, k - 1)]]

(***************************************************************************)
(* str.format                                                              *)
(***************************************************************************)
HexDigits == <<"0", "1", "2", "3", "4", "5", "6", "7", "8", "9", "a", "b", "c", "d", "e", "f">>

\* f'{piece:0Nx}' for a non-negative piece: its hexadecimal digits, padded with
\* zeros on the left to width characters and never cut
FormatHex(piece, width) ==
    LET n == Max(Max(width, 1), (Len(piece.bits) + 3) \div 4)
    IN  [k \in 1..n |->
           LET low == 4 * (n - k)
           IN  HexDigits[1 + Bit(piece, low + 1) + 2 * Bit(piece, low + 2)
                           + 4 * Bit(piece, low + 3) + 8 * Bit(piece, low + 4)]]

\* ''.join(parts)
RECURSIVE Join(_)
Join(parts) == IF parts = <<>> THEN <<>> ELSE Head(parts) \o Join(Tail(parts))

(***************************************************************************)
(* list indexing from 0, as in the source                                  *)
(***************************************************************************)
At(xs, idx) == xs[idx + 1]

(***************************************************************************)
(* src/utils.py and the right_rotate of src/sha-256.py                     *)
(***************************************************************************)
Mask32 == W32(65535, 65535)                      \* 0xffffffff
Mask64 == W64(65535, 65535, 65535, 65535)        \* 0xFFFFFFFFFFFFFFFF

\* utils.left_rotate: ((n << b) | (n >> (32 - b))) & 0xffffffff
left_rotate(n, b) == And(Or(Shl(n, b), Shr(n, 32 - b)), Mask32)

\* utils.right_rotate, the one src/sha-512.py imports:
\* (value >> shift) | (value << (32 - shift)) & 0xFFFFFFFF, where & binds tighter than |
utils_right_rotate(value, shift) == Or(Shr(value, shift), And(Shl(value, 32 - shift), Mask32))

\* the right_rotate src/sha-256.py defines over the imported one, with the same body
right_rotate(value, shift) == Or(Shr(value, shift), And(Shl(value, 32 - shift), Mask32))

\* ROTL is defined nowhere (src/sha-1.py imports only left_rotate): looking the
\* name up raises NameError before the argument is used
ROTL(word) == Raise("NameError")

(***************************************************************************)
(* The tables                                                              *)
(***************************************************************************)
\* K of src/sha-256.py as the module is loaded
K256_0 == <<
    W32(17034, 12184), W32(28983, 17553),   \* 428a2f98 71374491
    W32(46528, 64463), W32(59829, 56229),   \* b5c0fbcf e9b5dba5
    W32(14678, 49755), W32(23025, 4593),   \* 3956c25b 59f111f1
    W32(37439, 33444), W32(43804, 24277),   \* 923f82a4 ab1c5ed5
    W32(55303, 43672), W32(4739, 23297),   \* d807aa98 12835b01
    W32(9265, 34238), W32(21772, 32195),   \* 243185be 550c7dc3
    W32(29374, 23924), W32(32990, 45566),   \* 72be5d74 80deb1fe
    W32(39900, 1703), W32(49563, 61812),   \* 9bdc06a7 c19bf174
    W32(58523, 27073), W32(61374, 18310),   \* e49b69c1 efbe4786
    W32(4033, 40390), W32(9228, 41420),   \* 0fc19dc6 240ca1cc
    W32(11753, 11375), W32(19060, 33962),   \* 2de92c6f 4a7484aa
    W32(23728, 43484), W32(30457, 35034),   \* 5cb0a9dc 76f988da
    W32(38974, 20818), W32(43057, 50797),   \* 983e5152 a831c66d
    W32(45059, 10184), W32(48985, 32711),   \* b00327c8 bf597fc7
    W32(50912, 3059), W32(54695, 37191),   \* c6e00bf3 d5a79147
    W32(1738, 25425), W32(5161, 10599),   \* 06ca6351 14292967
    W32(10167, 2693), W32(11803, 8504),   \* 27b70a85 2e1b2138
    W32(19756, 28156), W32(21304, 3347),   \* 4d2c6dfc 53380d13
    W32(25866, 29524), W32(30314, 2747),   \* 650a7354 766a0abb
    W32(33218, 51502), W32(37490, 11397),   \* 81c2c92e 92722c85
    W32(41663, 59553), W32(43034, 26187),   \* a2bfe8a1 a81a664b
    W32(49739, 35696), W32(51052, 20899),   \* c24b8b70 c76c51a3
    W32(53650, 59417), W32(54937, 1572),   \* d192e819 d6990624
    W32(62478, 13701), W32(4202, 41072),   \* f40e3585 106aa070
    W32(6564, 49430), W32(7735, 27656),   \* 19a4c116 1e376c08
    W32(10056, 30540), W32(13488, 48309),   \* 2748774c 34b0bcb5
    W32(14620, 3251), W32(20184, 43594),   \* 391c0cb3 4ed8aa4a
    W32(23452, 51791), W32(26670, 28659),   \* 5b9cca4f 682e6ff3
    W32(29839, 33518), W32(30885, 25455),   \* 748f82ee 78a5636f
    W32(33992, 30740), W32(36039, 520),   \* 84c87814 8cc70208
    W32(37054, 65530), W32(42064, 27883),   \* 90befffa a4506ceb
    W32(48889, 41975), W32(50801, 30962)   \* bef9a3f7 c67178f2
    >>

\* H of src/sha-256.py as the module is loaded
H256_0 == <<
    W32(27145, 58983), W32(47975, 44677),   \* 6a09e667 bb67ae85
    W32(15470, 62322), W32(42319, 62778),   \* 3c6ef372 a54ff53a
    W32(20750, 21119), W32(39685, 26764),   \* 510e527f 9b05688c
    W32(8067, 55723), W32(23520, 52505)   \* 1f83d9ab 5be0cd19
    >>

\* K of src/sha-512.py as the module is loaded
K512_0 == <<
    W64(17034, 12184, 55080, 44578),   \* 428a2f98d728ae22
    W64(28983, 17553, 9199, 26061),   \* 7137449123ef65cd
    W64(46528, 64463, 60493, 15151),   \* b5c0fbcfec4d3b2f
    W64(59829, 56229, 33161, 56252),   \* e9b5dba58189dbbc
    W64(14678, 49755, 62280, 46392),   \* 3956c25bf348b538
    W64(23025, 4593, 46597, 53273),   \* 59f111f1b605d019
    W64(37439, 33444, 44825, 20379),   \* 923f82a4af194f9b
    W64(43804, 24277, 55917, 33048),   \* ab1c5ed5da6d8118
    W64(55303, 43672, 41731, 578),   \* d807aa98a3030242
    W64(4739, 23297, 17776, 28606),   \* 12835b0145706fbe
    W64(9265, 34238, 20196, 45708),   \* 243185be4ee4b28c
    W64(21772, 32195, 54783, 46306),   \* 550c7dc3d5ffb4e2
    W64(29374, 23924, 62075, 35183),   \* 72be5d74f27b896f
    W64(32990, 45566, 15126, 38577),   \* 80deb1fe3b1696b1
    W64(39900, 1703, 9671, 4661),   \* 9bdc06a725c71235
    W64(49563, 61812, 53097, 9876),   \* c19bf174cf692694
    W64(58523, 27073, 40689, 19154),   \* e49b69c19ef14ad2
    W64(61374, 18310, 14415, 9699),   \* efbe4786384f25e3
    W64(4033, 40390, 35724, 54709),   \* 0fc19dc68b8cd5b5
    W64(9228, 41420, 30636, 40037),   \* 240ca1cc77ac9c65
    W64(11753, 11375, 22827, 629),   \* 2de92c6f592b0275
    W64(19060, 33962, 28326, 58499),   \* 4a7484aa6ea6e483
    W64(23728, 43484, 48449, 64468),   \* 5cb0a9dcbd41fbd4
    W64(30457, 35034, 33553, 21429),   \* 76f988da831153b5
    W64(38974, 20818, 61030, 57259),   \* 983e5152ee66dfab
    W64(43057, 50797, 11700, 12816),   \* a831c66d2db43210
    W64(45059, 10184, 39163, 8511),   \* b00327c898fb213f
    W64(48985, 32711, 48879, 3812),   \* bf597fc7beef0ee4
    W64(50912, 3059, 15784, 36802),   \* c6e00bf33da88fc2
    W64(54695, 37191, 37642, 42789),   \* d5a79147930aa725
    W64(1738, 25425, 57347, 33391),   \* 06ca6351e003826f
    W64(5161, 10599, 2574, 28272),   \* 142929670a0e6e70
    W64(10167, 2693, 18130, 12284),   \* 27b70a8546d22ffc
    W64(11803, 8504, 23590, 51494),   \* 2e1b21385c26c926
    W64(19756, 28156, 23236, 10989),   \* 4d2c6dfc5ac42aed
    W64(21304, 3347, 40341, 46047),   \* 53380d139d95b3df
    W64(25866, 29524, 35759, 25566),   \* 650a73548baf63de
    W64(30314, 2747, 15479, 45736),   \* 766a0abb3c77b2a8
    W64(33218, 51502, 18413, 44774),   \* 81c2c92e47edaee6
    W64(37490, 11397, 5250, 13627),   \* 92722c851482353b
    W64(41663, 59553, 19697, 868),   \* a2bfe8a14cf10364
    W64(43034, 26187, 48194, 12289),   \* a81a664bbc423001
    W64(49739, 35696, 53496, 38801),   \* c24b8b70d0f89791
    W64(51052, 20899, 1620, 48688),   \* c76c51a30654be30
    W64(53650, 59417, 55023, 21016),   \* d192e819d6ef5218
    W64(54937, 1572, 21861, 43280),   \* d69906245565a910
    W64(62478, 13701, 22385, 8234),   \* f40e35855771202a
    W64(4202, 41072, 12987, 53688),   \* 106aa07032bbd1b8
    W64(6564, 49430, 47314, 53448),   \* 19a4c116b8d2d0c8
    W64(7735, 27656, 20801, 43859),   \* 1e376c085141ab53
    W64(10056, 30540, 57230, 60313),   \* 2748774cdf8eeb99
    W64(13488, 48309, 57755, 18600),   \* 34b0bcb5e19b48a8
    W64(14620, 3251, 50633, 23139),   \* 391c0cb3c5c95a63
    W64(20184, 43594, 58177, 35531),   \* 4ed8aa4ae3418acb
    W64(23452, 51791, 30563, 58227),   \* 5b9cca4f7763e373
    W64(26670, 28659, 54962, 47267),   \* 682e6ff3d6b2b8a3
    W64(29839, 33518, 24047, 45820),   \* 748f82ee5defb2fc
    W64(30885, 25455, 17175, 12128),   \* 78a5636f43172f60
    W64(33992, 30740, 41456, 43890),   \* 84c87814a1f0ab72
    W64(36039, 520, 6756, 14828),   \* 8cc702081a6439ec
    W64(37054, 65530, 9059, 7720),   \* 90befffa23631e28
    W64(42064, 27883, 56962, 48617),   \* a4506cebde82bde9
    W64(48889, 41975, 45766, 30997),   \* bef9a3f7b2c67915
    W64(50801, 30962, 58226, 21291),   \* c67178f2e372532b
    W64(51751, 16078, 59942, 24988),   \* ca273eceea26619c
    W64(53638, 47303, 8640, 49671),   \* d186b8c721c0c207
    W64(60122, 32214, 52704, 60190),   \* eada7dd6cde0eb1e
    W64(62845, 20351, 61038, 53624),   \* f57d4f7fee6ed178
    W64(1776, 26538, 29207, 28602),   \* 06f067aa72176fba
    W64(2659, 32197, 41672, 39078),   \* 0a637dc5a2c898a6
    W64(4415, 38916, 48889, 3502),   \* 113f9804bef90dae
    W64(7025, 2869, 4892, 18203),   \* 1b710b35131c471b
    W64(10459, 30709, 8964, 32132),   \* 28db77f523047d84
    W64(13002, 43899, 16583, 9363),   \* 32caab7b40c72493
    W64(15518, 48650, 5577, 48828),   \* 3c9ebe0a15c9bebc
    W64(17181, 26564, 39952, 3404),   \* 431d67c49c100d4c
    W64(19653, 54462, 52030, 17078),   \* 4cc5d4becb3e42b6
    W64(22911, 10652, 64613, 32298),   \* 597f299cfc657e2a
    W64(24523, 28587, 15062, 64236),   \* 5fcb6fab3ad6faec
    W64(27716, 6540, 19015, 22551)   \* 6c44198c4a475817
    >>

\* H of src/sha-512.py as the module is loaded
H512_0 == <<
    W64(27145, 58983, 62396, 51464),   \* 6a09e667f3bcc908
    W64(47975, 44677, 33994, 42811),   \* bb67ae8584caa73b
    W64(15470, 62322, 65172, 63531),   \* 3c6ef372fe94f82b
    W64(42319, 62778, 24349, 14065),   \* a54ff53a5f1d36f1
    W64(20750, 21119, 44518, 33489),   \* 510e527fade682d1
    W64(39685, 26764, 11070, 27679),   \* 9b05688c2b3e6c1f
    W64(8067, 55723, 64321, 48491),   \* 1f83d9abfb41bd6b
    W64(23520, 52505, 4990, 8569)   \* 5be0cd19137e2179
    >>

\* K of sha1_process_block, a local list
K1 == <<W32(23170, 31129),    \* 0x5A827999
        W32(28377, 60321),    \* 0x6ED9EBA1
        W32(36635, 48348),    \* 0x8F1BBCDC
        W32(51810, 49622)>>   \* 0xCA62C1D6

\* the initial state of sha1, a local tuple
State1 == <<W32(26437, 8961),     \* 0x67452301
            W32(61389, 43913),    \* 0xEFCDAB89
            W32(39098, 56574),    \* 0x98BADCFE
            W32(4146, 21622),     \* 0x10325476
            W32(50130, 57840)>>   \* 0xC3D2E1F0

(***************************************************************************)
(* The message schedule and the rounds, one loop iteration each            *)
(***************************************************************************)
\* src/sha-1.py, sha1_expand_block: the word appended for index i
sha1_schedule(words, i) ==
    LET word == ROTL(Xor(Xor(Xor(At(words, i - 3), At(words, i - 8)), At(words, i - 14)),
                         At(words, i - 16)))
    IN  And(word, Mask32)

\* sha256_schedule with (w[i - 2] >> 10) written as a rotation
sha256_schedule_Rotr10(w, i) ==
    LET s0 == Xor(Xor(right_rotate(At(w, i - 15), 7), right_rotate(At(w, i - 15), 18)),
                  Shr(At(w, i - 15), 3))
        s1 == Xor(Xor(right_rotate(At(w, i - 2), 17), right_rotate(At(w, i - 2), 19)),
                  right_rotate(At(w, i - 2), 10))
    IN  And(Add(Add(Add(At(w, i - 16), s0), At(w, i - 7)), s1), Mask32)

\* src/sha-256.py: the word appended to w for index i
sha256_schedule(w, i) ==
    LET s0 == Xor(Xor(right_rotate(At(w, i - 15), 7), right_rotate(At(w, i - 15), 18)),
                  Shr(At(w, i - 15), 3))
        s1 == Xor(Xor(right_rotate(At(w, i - 2), 17), right_rotate(At(w, i - 2), 19)),
                  Shr(At(w, i - 2), 10))
    IN  And(Add(Add(Add(At(w, i - 16), s0), At(w, i - 7)), s1), Mask32)

\* src/sha-512.py: the word appended to w for index i
sha512_schedule(w, i) ==
    LET s0 == Xor(Xor(utils_right_rotate(At(w, i - 15), 1), utils_right_rotate(At(w, i - 15), 8)),
                  Shr(At(w, i - 15), 7))
        s1 == Xor(Xor(utils_right_rotate(At(w, i - 2), 19), utils_right_rotate(At(w, i - 2), 61)),
                  Shr(At(w, i - 2), 6))
    IN  And(Add(Add(Add(At(w, i - 16), s0), At(w, i - 7)), s1), Mask64)

\* src/sha-1.py, sha1_process_block: one pass of the main loop, round t
sha1_round(v, W, t) ==
    LET f == IF t < 20 THEN Or(And(v.b, v.c), And(Not(v.b), v.d))
             ELSE IF t < 40 THEN Xor(Xor(v.b, v.c), v.d)
             ELSE IF t < 60 THEN Or(Or(And(v.b, v.c), And(v.b, v.d)), And(v.c, v.d))
             ELSE Xor(Xor(v.b, v.c), v.d)
        k == IF t < 20 THEN At(K1, 0)
             ELSE IF t < 40 THEN At(K1, 1)
             ELSE IF t < 60 THEN At(K1, 2)
             ELSE At(K1, 3)
        temp == And(Add(Add(Add(Add(left_rotate(v.a, 5), f), v.e), k), At(W, t)), Mask32)
        c    == left_rotate(v.b, 30)
    IN  [exc |-> FirstExc(<<temp, c>>),
         val |-> [e |-> v.d, d |-> v.c, c |-> c, b |-> v.a, a |-> temp]]

\* src/sha-256.py: one pass of the main compression loop, round i
sha256_round(v, w, i, K) ==
    LET s1    == Xor(Xor(right_rotate(v.e, 6), right_rotate(v.e, 11)), right_rotate(v.e, 25))
        ch    == Xor(And(v.e, v.f), And(Not(v.e), v.g))
        temp1 == And(Add(Add(Add(Add(v.h, s1), ch), At(K, i)), At(w, i)), Mask32)
        s0    == Xor(Xor(right_rotate(v.a, 2), right_rotate(v.a, 13)), right_rotate(v.a, 22))
        maj   == Xor(Xor(And(v.a, v.b), And(v.a, v.c)), And(v.b, v.c))
        temp2 == And(Add(s0, maj), Mask32)
        e     == And(Add(v.d, temp1), Mask32)
        a     == And(Add(temp1, temp2), Mask32)
    IN  [exc |-> FirstExc(<<temp1, temp2, e, a>>),
         val |-> [h |-> v.g, g |-> v.f, f |-> v.e, e |-> e,
                  d |-> v.c, c |-> v.b, b |-> v.a, a |-> a]]

\* src/sha-512.py: one pass of the main compression loop, round i
sha512_round(v, w, i, K) ==
    LET s1    == Xor(Xor(utils_right_rotate(v.e, 14), utils_right_rotate(v.e, 18)),
                     utils_right_rotate(v.e, 41))
        ch    == Xor(And(v.e, v.f), And(Not(v.e), v.g))
        temp1 == And(Add(Add(Add(Add(v.h, s1), ch), At(K, i)), At(w, i)), Mask64)
        s0    == Xor(Xor(utils_right_rotate(v.a, 28), utils_right_rotate(v.a, 34)),
                     utils_right_rotate(v.a, 39))
        maj   == Xor(Xor(And(v.a, v.b), And(v.a, v.c)), And(v.b, v.c))
        temp2 == And(Add(s0, maj), Mask64)
        e     == And(Add(v.d, temp1), Mask64)
        a     == And(Add(temp1, temp2), Mask64)
    IN  [exc |-> FirstExc(<<temp1, temp2, e, a>>),
         val |-> [h |-> v.g, g |-> v.f, f |-> v.e, e |-> e,
                  d |-> v.c, c |-> v.b, b |-> v.a, a |-> a]]

\* a, b, c, d, e = state
Unpack5(state) ==
    [a |-> At(state, 0), b |-> At(state, 1), c |-> At(state, 2), d |-> At(state, 3),
     e |-> At(state, 4)]

\* a, b, c, d, e, f, g, h = hash_pieces
Unpack8(hp) ==
    [a |-> At(hp, 0), b |-> At(hp, 1), c |-> At(hp, 2), d |-> At(hp, 3),
     e |-> At(hp, 4), f |-> At(hp, 5), g |-> At(hp, 6), h |-> At(hp, 7)]

\* src/sha-1.py, sha1_process_block: the state the block leaves
sha1_fold(state, v) ==
    <<And(Add(At(state, 0), v.a), Mask32), And(Add(At(state, 1), v.b), Mask32),
      And(Add(At(state, 2), v.c), Mask32), And(Add(At(state, 3), v.d), Mask32),
      And(Add(At(state, 4), v.e), Mask32)>>

\* zip(hash_pieces, [a, b, c, d, e, f, g, h])
Zip8(hp, v) ==
    <<<<At(hp, 0), v.a>>, <<At(hp, 1), v.b>>, <<At(hp, 2), v.c>>, <<At(hp, 3), v.d>>,
      <<At(hp, 4), v.e>>, <<At(hp, 5), v.f>>, <<At(hp, 6), v.g>>, <<At(hp, 7), v.h>>>>

\* sha256_fold with the mask forgotten
sha256_fold_NoMask(hp, v) == [j \in 1..8 |-> Add(Zip8(hp, v)[j][1], Zip8(hp, v)[j][2])]

\* src/sha-256.py: [(hp + val) & 0xFFFFFFFF for hp, val in zip(...)]
sha256_fold(hp, v) == [j \in 1..8 |-> And(Add(Zip8(hp, v)[j][1], Zip8(hp, v)[j][2]), Mask32)]

\* src/sha-512.py: [(hp + val) & 0xFFFFFFFFFFFFFFFF for hp, val in zip(...)]
sha512_fold(hp, v) == [j \in 1..8 |-> And(Add(Zip8(hp, v)[j][1], Zip8(hp, v)[j][2]), Mask64)]

\* struct.pack('>5L', *state)
sha1_digest(state) ==
    LET parts == [j \in 1..5 |-> pack(state[j], 4)]
        bad   == {j \in 1..5 : parts[j].exc # NoExc}
    IN  IF bad # {} THEN [exc |-> "struct.error", val |-> <<>>]
        ELSE [exc |-> NoExc, val |-> Join([j \in 1..5 |-> parts[j].val])]

\* ''.join(f'{piece:08x}' for piece in hash_pieces)
sha256_digest(hp) == [exc |-> NoExc, val |-> Join([j \in 1..Len(hp) |-> FormatHex(hp[j], 8)])]

\* ''.join(f'{piece:016x}' for piece in hash_pieces)
sha512_digest(hp) == [exc |-> NoExc, val |-> Join([j \in 1..Len(hp) |-> FormatHex(hp[j], 16)])]

(***************************************************************************)
(* The state                                                               *)
(***************************************************************************)
VARIABLES
    K256, H256,      \* the module-level lists K and H of src/sha-256.py
    K512, H512,      \* the module-level lists K and H of src/sha-512.py
    calls,           \* the number of digest calls made so far
    history,         \* the calls that have ended: <<function, argument, outcome>>
    alg,             \* the function being run: "sha1", "sha256" or "sha512"
    m,               \* its argument
    pc,              \* where the call stands
    message,         \* the bytearray being padded, then the padded message
    message_len,     \* the bit length recorded by the padding
    hash_pieces,     \* hash_pieces of sha256 and sha512, state of sha1
    chunk_start,     \* the offset of the block being processed
    w,               \* the message schedule (words of sha1_expand_block)
    i,               \* the index of the loop being run (i, t)
    work,            \* the working variables a, b, c, ...
    ret              \* the outcome of the call: the value returned or the exception

globals == <<K256, H256, K512, H512>>
frame   == <<alg, m, pc, message, message_len, hash_pieces, chunk_start, w, i, work, ret>>
vars    == <<globals, calls, history, frame>>

Algs == {"sha1", "sha256", "sha512"}

\* block size in bytes: range(0, len(...), 64) and range(0, len(message), 128)
BlockBytes(a) == IF a = "sha512" THEN 128 ELSE 64
\* bytes per word: '>16L' and '>16Q'
WordBytes(a)  == IF a = "sha512" THEN 8 ELSE 4
\* range(16, 80) / range(80), range(16, 64) / range(64)
Rounds(a)     == IF a = "sha256" THEN 64 ELSE 80

Unbound  == <<>>
NoResult == [exc |-> NoExc, val |-> <<>>]

(***************************************************************************)
(* The inputs                                                              *)
(***************************************************************************)
MaxOver  == 1      \* messages of up to this many bytes past the one-block limit
MaxLen   == 129    \* the padding is run on every length up to this one
MaxCalls == 3      \* digest calls in a row

Empty == Bytes(<<>>)
Abc   == Bytes(<<97, 98, 99>>)

\* the messages whose digest is computed: "", "abc", and the longest message whose
\* padding fits one 64-byte block (64 - 8 - 1 bytes) and the next ones
Messages == {Empty, Abc} \cup {Fill(255, n) : n \in (64 - 8 - 1)..(64 - 8 - 1 + MaxOver)}

\* the messages that are only padded: every length up to MaxLen, a 512 MB message
\* (2^32 bits), and two messages that hold the padding's own bytes
PadMessages ==
    {Fill(b, n) : b \in {0, 97, 128}, n \in 0..MaxLen}
        \cup {Fill(97, 2^29), Abc, Bytes(<<128, 0, 0, 97, 0, 128>>)}

\* the calls made in a row: sha256 on two messages, the other two functions on one
CallArgs == {<<"sha1", Empty>>, <<"sha256", Empty>>, <<"sha256", Abc>>, <<"sha512", Empty>>}

(***************************************************************************)
(* The steps of a call                                                     *)
(***************************************************************************)
Init ==
    /\ K256 = K256_0 /\ H256 = H256_0 /\ K512 = K512_0 /\ H512 = H512_0
    /\ calls = 0 /\ history = {}
    /\ alg = "sha256" /\ m = Empty /\ pc = "idle"
    /\ message = Empty /\ message_len = Zero
    /\ hash_pieces = Unbound /\ chunk_start = 0 /\ w = Unbound /\ i = 0 /\ work = Unbound
    /\ ret = NoResult

\* the call ends, returning r.val or raising r.exc
Ends(r) ==
    /\ pc' = IF r.exc = NoExc THEN "done" ELSE "raised"
    /\ ret' = r
    /\ history' = history \cup {<<alg, m, r>>}

\* sha1(msg), sha256(msg) or sha512(msg) is called; control reaches
\* message.append(0x80).  sha1 sets state before it pads.
Call(a, msg) ==
    /\ pc \in {"idle", "done", "raised"}
    /\ calls' = calls + 1
    /\ alg' = a /\ m' = msg
    /\ message' = msg
    /\ message_len' = Mul(FromNat(BLen(msg)), FromNat(8))
    /\ hash_pieces' = IF a = "sha1" THEN State1 ELSE Unbound
    /\ chunk_start' = 0 /\ w' = Unbound /\ i' = 0 /\ work' = Unbound
    /\ ret' = NoResult
    /\ pc' = "append80"
    /\ UNCHANGED <<globals, history>>

\* Append80 with the marker bit at the wrong end of the byte
Append80_LowBit ==
    /\ pc = "append80"
    /\ message' = BAppend(message, 1)
    /\ pc' = "padloop"
    /\ UNCHANGED <<globals, calls, history, alg, m, message_len, hash_pieces, chunk_start,
                   w, i, work, ret>>

\* message.append(0x80)
Append80 ==
    /\ pc = "append80"
    /\ message' = BAppend(message, 128)
    /\ pc' = "padloop"
    /\ UNCHANGED <<globals, calls, history, alg, m, message_len, hash_pieces, chunk_start,
                   w, i, work, ret>>

\* PadMore with no room left for the length field
PadMore_NoRoom(a, ba) ==
    LET bitlen == Mul(FromNat(BLen(ba)), FromNat(8))
    IN  CASE a = "sha1"   -> ModPow2(bitlen, 9) # FromNat(0)
          [] a = "sha256" -> ModPow2(bitlen, 9) # FromNat(0)
          [] a = "sha512" -> ModPow2(bitlen, 10) # FromNat(0)

\* the condition of the while loop of the padding
PadMore(a, ba) ==
    LET bitlen == Mul(FromNat(BLen(ba)), FromNat(8))
    IN  CASE a = "sha1"   -> ModPow2(bitlen, 9) # FromNat(448)                     \* % 512
          [] a = "sha256" -> ModPow2(Add(bitlen, FromNat(64)), 9) # FromNat(0)     \* % 512
          [] a = "sha512" -> ModPow2(Add(bitlen, FromNat(128)), 10) # FromNat(0)   \* % 1024

\* message.append(0x00) / message.append(0)
AppendZero ==
    /\ pc = "padloop"
    /\ PadMore(alg, message)
    /\ message' = BAppend(message, 0)
    /\ UNCHANGED <<globals, calls, history, alg, m, pc, message_len, hash_pieces, chunk_start,
                   w, i, work, ret>>

\* LengthField with the bit length cut to 32 bits
LengthField_32Bit(a, bitlen) ==
    LET low == pack(And(bitlen, Mask32), 8)
    IN  IF a = "sha512"
        THEN [exc |-> FirstExc(<<pack(Zero, 8), low>>), val |-> pack(Zero, 8).val \o low.val]
        ELSE low

\* the bytes appended once the loop has ended: the length field
LengthField(a, bitlen) ==
    LET low == pack(bitlen, 8)
    IN  IF a = "sha512"
        THEN [exc |-> FirstExc(<<pack(Zero, 8), low>>), val |-> pack(Zero, 8).val \o low.val]
        ELSE low

\* message.extend(struct.pack('>Q', message_len)) and its like
AppendLength ==
    /\ pc = "padloop"
    /\ ~PadMore(alg, message)
    /\ LET field == LengthField(alg, message_len)
       IN  IF field.exc # NoExc
           THEN Ends([exc |-> field.exc, val |-> <<>>]) /\ UNCHANGED message
           ELSE /\ message' = BExtend(message, field.val)
                /\ pc' = "padded"
                /\ UNCHANGED <<history, ret>>
    /\ UNCHANGED <<globals, calls, alg, m, message_len, hash_pieces, chunk_start, w, i, work>>

\* hash_pieces = H[:] (sha1 holds its state already) and the loop over the blocks starts
StartChunks ==
    /\ pc = "padded"
    /\ hash_pieces' = CASE alg = "sha1"   -> hash_pieces
                        [] alg = "sha256" -> H256
                        [] alg = "sha512" -> H512
    /\ chunk_start' = 0
    /\ pc' = "chunk"
    /\ UNCHANGED <<globals, calls, history, alg, m, message, message_len, w, i, work, ret>>

\* the next block is cut out and unpacked into 16 words; sha1_process_block binds
\* a..e before it expands the block
NextChunk ==
    /\ pc = "chunk"
    /\ chunk_start < BLen(message)
    /\ LET block == BSlice(message, chunk_start, chunk_start + BlockBytes(alg))
           words == unpack16(block, WordBytes(alg))
       IN  /\ work' = IF alg = "sha1" THEN Unpack5(hash_pieces) ELSE work
           /\ IF words.exc # NoExc
              THEN Ends([exc |-> words.exc, val |-> <<>>]) /\ UNCHANGED <<w, i>>
              ELSE /\ w' = words.val
                   /\ i' = 16
                   /\ pc' = "expand"
                   /\ UNCHANGED <<history, ret>>
    /\ UNCHANGED <<globals, calls, alg, m, message, message_len, hash_pieces, chunk_start>>

\* the word the schedule loop appends for index idx
Schedule(a, ws, idx) ==
    CASE a = "sha1"   -> sha1_schedule(ws, idx)
      [] a = "sha256" -> sha256_schedule(ws, idx)
      [] a = "sha512" -> sha512_schedule(ws, idx)

\* one pass of the loop that extends the schedule
Expand ==
    /\ pc = "expand"
    /\ i < Rounds(alg)
    /\ LET word == Schedule(alg, w, i)
       IN  IF word.exc # NoExc
           THEN Ends([exc |-> word.exc, val |-> <<>>]) /\ UNCHANGED <<w, i>>
           ELSE /\ w' = Append(w, word)
                /\ i' = i + 1
                /\ UNCHANGED <<pc, history, ret>>
    /\ UNCHANGED <<globals, calls, alg, m, message, message_len, hash_pieces, chunk_start, work>>

\* the schedule is complete; sha256 and sha512 bind a..h from hash_pieces here
StartRounds ==
    /\ pc = "expand"
    /\ i = Rounds(alg)
    /\ work' = IF alg = "sha1" THEN work ELSE Unpack8(hash_pieces)
    /\ i' = 0
    /\ pc' = "rounds"
    /\ UNCHANGED <<globals, calls, history, alg, m, message, message_len, hash_pieces,
                   chunk_start, w, ret>>

\* the working variables after round idx
RoundOf(a, v, ws, idx) ==
    CASE a = "sha1"   -> sha1_round(v, ws, idx)
      [] a = "sha256" -> sha256_round(v, ws, idx, K256)
      [] a = "sha512" -> sha512_round(v, ws, idx, K512)

\* one pass of the main loop
Round ==
    /\ pc = "rounds"
    /\ i < Rounds(alg)
    /\ LET r == RoundOf(alg, work, w, i)
       IN  IF r.exc # NoExc
           THEN Ends([exc |-> r.exc, val |-> <<>>]) /\ UNCHANGED <<work, i>>
           ELSE /\ work' = r.val
                /\ i' = i + 1
                /\ UNCHANGED <<pc, history, ret>>
    /\ UNCHANGED <<globals, calls, alg, m, message, message_len, hash_pieces, chunk_start, w>>

\* FoldOf with the working variables stored instead of added
FoldOf_Overwrite(a, hp, v) ==
    IF a = "sha1" THEN <<v.a, v.b, v.c, v.d, v.e>>
    ELSE <<v.a, v.b, v.c, v.d, v.e, v.f, v.g, v.h>>

\* the hash state the block leaves
FoldOf(a, hp, v) ==
    CASE a = "sha1"   -> sha1_fold(hp, v)
      [] a = "sha256" -> sha256_fold(hp, v)
      [] a = "sha512" -> sha512_fold(hp, v)

\* Fold with hash_pieces = H in place of H[:] and the list updated in place
Fold_InPlace ==
    /\ pc = "rounds"
    /\ i = Rounds(alg)
    /\ hash_pieces' = FoldOf(alg, hash_pieces, work)
    /\ H256' = IF alg = "sha256" THEN hash_pieces' ELSE H256
    /\ H512' = IF alg = "sha512" THEN hash_pieces' ELSE H512
    /\ chunk_start' = chunk_start + BlockBytes(alg)
    /\ pc' = "chunk"
    /\ UNCHANGED <<K256, K512, calls, history, alg, m, message, message_len, w, i, work, ret>>

\* the working variables are added to the hash state; on to the next block
Fold ==
    /\ pc = "rounds"
    /\ i = Rounds(alg)
    /\ hash_pieces' = FoldOf(alg, hash_pieces, work)
    /\ chunk_start' = chunk_start + BlockBytes(alg)
    /\ pc' = "chunk"
    /\ UNCHANGED <<globals, calls, history, alg, m, message, message_len, w, i, work, ret>>

\* the value returned
DigestOf(a, hp) ==
    CASE a = "sha1"   -> sha1_digest(hp)
      [] a = "sha256" -> sha256_digest(hp)
      [] a = "sha512" -> sha512_digest(hp)

\* the loop over the blocks has ended: the digest is returned
Return ==
    /\ pc = "chunk"
    /\ chunk_start >= BLen(message)
    /\ Ends(DigestOf(alg, hash_pieces))
    /\ UNCHANGED <<globals, calls, alg, m, message, message_len, hash_pieces, chunk_start,
                   w, i, work>>

(***************************************************************************)
(* The specifications                                                      *)
(***************************************************************************)
\* one call of one of the three functions on one of Messages
Start == calls = 0 /\ \E a \in Algs, msg \in Messages : Call(a, msg)

Next ==
    \/ Start
    \/ Append80 \/ AppendZero \/ AppendLength
    \/ StartChunks \/ NextChunk \/ Expand \/ StartRounds \/ Round \/ Fold \/ Return

Spec == Init /\ [][Next]_vars

\* the padding alone, on one of PadMessages
StartPad == calls = 0 /\ \E a \in Algs, msg \in PadMessages : Call(a, msg)

NextPad == StartPad \/ Append80 \/ AppendZero \/ AppendLength

SpecPad == Init /\ [][NextPad]_vars

\* up to MaxCalls calls in a row, each one of CallArgs
StartAgain == calls < MaxCalls /\ \E c \in CallArgs : Call(c[1], c[2])

NextCalls ==
    \/ StartAgain
    \/ Append80 \/ AppendZero \/ AppendLength
    \/ StartChunks \/ NextChunk \/ Expand \/ StartRounds \/ Round \/ Fold \/ Return

SpecCalls == Init /\ [][NextCalls]_vars

(***************************************************************************)
(* The properties                                                          *)
(***************************************************************************)
Ended == pc \in {"done", "raised"}

\* x is a non-negative integer of at most n bits
InBits(x, n) == x.exc = NoExc /\ ~x.neg /\ Len(x.bits) <= n

\* bits lo+1 .. lo+16 of x as a natural number
Half(x, lo) == BitsToNat([j \in 1..16 |-> Bit(x, lo + j)])

\* the value of a big-endian byte string that is small enough to be a natural number
RECURSIVE BigEndianValue(_)
BigEndianValue(bs) ==
    IF bs = <<>> THEN 0 ELSE 256 * BigEndianValue(SubSeq(bs, 1, Len(bs) - 1)) + bs[Len(bs)]

\* the first n bytes of ba
RECURSIVE Prefix(_, _)
Prefix(ba, n) ==
    IF n = 0 \/ ba = <<>> THEN <<>>
    ELSE IF Head(ba).n <= n THEN <<Head(ba)>> \o Prefix(Tail(ba), n - Head(ba).n)
    ELSE <<[b |-> Head(ba).b, n |-> n]>>

\* bytes of the length field: 8 for sha1 and sha256, 16 for sha512
LengthBytes(a) == IF a = "sha512" THEN 16 ELSE 8

\* C1: sha1(m) raises nothing and returns exactly 20 bytes, for every message m.
C1_Sha1Returns20Bytes ==
    (alg = "sha1" /\ Ended) =>
        /\ pc = "done"
        /\ ret.exc = NoExc
        /\ Len(ret.val) = 20
        /\ \A k \in 1..Len(ret.val) : ret.val[k] \in 0..255

\* C2: sha512(m) raises nothing and returns its 64-byte digest as a string of 128
\* lowercase hexadecimal characters, for every message m.
C2_Sha512Returns128Hex ==
    (alg = "sha512" /\ Ended) =>
        /\ pc = "done"
        /\ ret.exc = NoExc
        /\ Len(ret.val) = 128
        /\ \A k \in 1..Len(ret.val) : \E d \in 1..16 : ret.val[k] = HexDigits[d]

Sha256OfEmpty ==
    <<"e", "3", "b", "0", "c", "4", "4", "2", "9", "8", "f", "c", "1", "c", "1", "4",
      "9", "a", "f", "b", "f", "4", "c", "8", "9", "9", "6", "f", "b", "9", "2", "4",
      "2", "7", "a", "e", "4", "1", "e", "4", "6", "4", "9", "b", "9", "3", "4", "c",
      "a", "4", "9", "5", "9", "9", "1", "b", "7", "8", "5", "2", "b", "8", "5", "5">>

Sha256OfAbc ==
    <<"b", "a", "7", "8", "1", "6", "b", "f", "8", "f", "0", "1", "c", "f", "e", "a",
      "4", "1", "4", "1", "4", "0", "d", "e", "5", "d", "a", "e", "2", "2", "2", "3",
      "b", "0", "0", "3", "6", "1", "a", "3", "9", "6", "1", "7", "7", "a", "9", "c",
      "b", "4", "1", "0", "f", "f", "6", "1", "f", "2", "0", "0", "1", "5", "a", "d">>

\* C3: sha256 returns the published SHA-256 digests of the empty message and of "abc".
C3_Sha256KnownAnswers ==
    (alg = "sha256" /\ Ended) =>
        /\ m = Empty => (pc = "done" /\ ret.val = Sha256OfEmpty)
        /\ m = Abc => (pc = "done" /\ ret.val = Sha256OfAbc)

C3_Witness == alg = "sha256" /\ pc = "done" /\ m = Abc /\ ret.val = Sha256OfAbc

\* the offsets of the first blocks and of the last block of a padded message
SomeChunkStarts(a, ba) ==
    LET last == (BLen(ba) - 1) \div BlockBytes(a)
    IN  {BlockBytes(a) * k : k \in (0..Min(3, last)) \cup {last}}

\* C4: the padded message of every variant is a whole number of blocks (64 bytes for
\* sha1 and sha256, 128 for sha512), so every block unpacks into exactly 16 words.
C4_PaddedLengthIsBlockMultiple ==
    pc = "padded" =>
        /\ BLen(message) % BlockBytes(alg) = 0
        /\ BLen(message) >= BlockBytes(alg)
        /\ \A cs \in SomeChunkStarts(alg, message) :
              LET words == unpack16(BSlice(message, cs, cs + BlockBytes(alg)), WordBytes(alg))
              IN  words.exc = NoExc /\ Len(words.val) = 16

C4_Witness ==
    /\ pc = "padded" /\ alg = "sha512"
    /\ BLen(m) = 128 - 16
    /\ BLen(message) = 2 * 128

\* C5: the padded message starts with the message, then holds 0x80, then only 0x00
\* up to the length field; a block-aligned message grows by one whole block.
C5_MarkerAndZeroFill ==
    pc = "padded" =>
        LET n == BLen(m)
            total == BLen(message)
        IN  /\ total > n
            /\ Prefix(message, n) = m
            /\ BAt(message, n) = 128
            /\ \A idx \in (n + 1)..(total - LengthBytes(alg) - 1) : BAt(message, idx) = 0
            /\ total - LengthBytes(alg) >= n + 1
            /\ (n % BlockBytes(alg) = 0) => (total = n + BlockBytes(alg))

C5_Witness ==
    /\ pc = "padded" /\ alg = "sha256"
    /\ BLen(m) = 64
    /\ BLen(message) = 128
    /\ BAt(message, 64) = 128

\* C6: the trailing length field is the big-endian encoding of 8 * len(m), the
\* length of the message as it was given, with nothing cut off (so for 2^32 bits
\* too); the high 8 bytes of sha512's 16-byte field are zero.
C6_LengthFieldEncodesBitLength ==
    pc = "padded" =>
        LET n     == BLen(m)
            total == BLen(message)
            L     == LengthBytes(alg)
            field == BSlice(message, total - L, total)
        IN  /\ Len(field) = L
            \* 8 * n = 2^24 * (n \div 2^21) + 8 * (n % 2^21)
            /\ BigEndianValue(SubSeq(field, L - 2, L)) = 8 * (n % 2^21)
            /\ BigEndianValue(SubSeq(field, 1, L - 3)) = n \div 2^21
            /\ (alg = "sha512") => (\A k \in 1..8 : field[k] = 0)

C6_Witness ==
    /\ pc = "padded" /\ alg = "sha256"
    /\ BLen(m) = 2^29
    /\ BSlice(message, BLen(message) - 8, BLen(message)) = <<0, 0, 0, 1, 0, 0, 0, 0>>

\* C7: whatever calls were made, the tables K and H of sha256 and sha512 are as
\* the modules defined them, and calls with the same argument ended the same way.
C7_TablesUnchangedAndDeterministic ==
    /\ K256 = K256_0 /\ H256 = H256_0 /\ K512 = K512_0 /\ H512 = H512_0
    /\ \A h1, h2 \in history : (h1[1] = h2[1] /\ h1[2] = h2[2]) => h1[3] = h2[3]

\* three calls have been made, sha256 has been called on "abc" more than once or
\* after a call on "", and the last call returned the digest of "abc"
C7_Witness ==
    /\ calls = 3 /\ pc = "done" /\ alg = "sha256" /\ m = Abc
    /\ history = {<<"sha256", Abc, ret>>, <<"sha256", Empty, [exc |-> NoExc, val |-> Sha256OfEmpty]>>}

\* (x + y) mod 2^bits, computed on 16-bit halves
RECURSIVE SumHalves(_, _, _, _, _)
SumHalves(x, y, bits, lo, carry) ==
    IF lo >= bits THEN <<>>
    ELSE LET t == Half(x, lo) + Half(y, lo) + carry
         IN  <<t % 65536>> \o SumHalves(x, y, bits, lo + 16, t \div 65536)

Halves(x, bits) == [k \in 1..(bits \div 16) |-> Half(x, 16 * (k - 1))]

\* z = (x + y) mod 2^bits
IsSumMod(z, x, y, bits) == InBits(z, bits) /\ Halves(z, bits) = SumHalves(x, y, bits, 0, 0)

\* the working variables in the order of the hash state
WorkList(v) ==
    IF DOMAIN v = {"a", "b", "c", "d", "e"} THEN <<v.a, v.b, v.c, v.d, v.e>>
    ELSE <<v.a, v.b, v.c, v.d, v.e, v.f, v.g, v.h>>

\* the initial hash state of a variant
InitialHash(a) ==
    CASE a = "sha1" -> State1 [] a = "sha256" -> H256_0 [] a = "sha512" -> H512_0

\* C8: the hash state is set once to the variant's constants; blocks are read at
\* offsets 0, B, 2B, ... with none skipped or repeated; the working variables start
\* each block as the current hash state; and the hash state changes only by adding
\* the working variables to it, word by word modulo 2^wordbits, after a block.
C8_HashStateChaining ==
    [][ /\ (hash_pieces' # hash_pieces) =>
              \/ pc \in {"idle", "done", "raised"} /\ pc' = "append80"
              \/ pc = "padded" /\ hash_pieces' = InitialHash(alg)
              \/ /\ pc = "rounds" /\ i = Rounds(alg) /\ pc' = "chunk"
                 /\ Len(hash_pieces') = Len(hash_pieces)
                 /\ \A j \in 1..Len(hash_pieces) :
                       IsSumMod(hash_pieces'[j], hash_pieces[j], WorkList(work)[j],
                                8 * WordBytes(alg))
        /\ (pc' = "chunk" /\ pc = "padded") => (hash_pieces' = InitialHash(alg) /\ chunk_start' = 0)
        /\ (pc' = "padded") => (pc = "padloop")
        /\ (chunk_start' # chunk_start) =>
              \/ pc' = "append80"
              \/ pc = "rounds" /\ pc' = "chunk" /\ chunk_start' = chunk_start + BlockBytes(alg)
        /\ (pc = "chunk" /\ pc' = "expand") =>
              /\ chunk_start % BlockBytes(alg) = 0
              /\ w' = unpack16(BSlice(message, chunk_start, chunk_start + BlockBytes(alg)),
                               WordBytes(alg)).val
        /\ (pc # "rounds" /\ pc' = "rounds") => (WorkList(work') = hash_pieces /\ i' = 0)
        /\ (pc = "rounds" /\ pc' = "chunk") => (i = Rounds(alg))
        /\ (pc' = "done") => (pc = "chunk" /\ chunk_start = BLen(message))
      ]_vars

\* a second block has been folded into the hash state
C8_Witness == alg = "sha256" /\ pc = "chunk" /\ chunk_start = 128 /\ BLen(message) = 128

\* x rotated right by n within 64 bits
Rotr64(x, n) == Norm(0, [j \in 1..64 |-> Bit(x, ((j - 1 + n) % 64) + 1)])

\* the rotation amounts sha512 passes to right_rotate
Sha512Shifts == {1, 8, 19, 61, 14, 18, 41, 28, 34, 39}

\* C9: for the 64-bit words sha512 holds and the amounts it passes, right_rotate
\* returns, without error, the word rotated right within 64 bits.
C9_RightRotateIs64Bit ==
    (alg = "sha512" /\ pc = "expand") =>
        \A k \in 1..Len(w) : \A n \in Sha512Shifts :
            /\ InBits(w[k], 64)
            /\ utils_right_rotate(w[k], n) = Rotr64(w[k], n)

\* C10: in sha256 every word of w, every working variable and every word of
\* hash_pieces is within 32 bits at every step, and right_rotate returns a 32-bit
\* value for each argument the next step passes it.
C10_Sha256WordsWithin32Bits ==
    (alg = "sha256") =>
        /\ \A k \in 1..Len(w) : InBits(w[k], 32)
        /\ \A k \in 1..Len(hash_pieces) : InBits(hash_pieces[k], 32)
        /\ (work # Unbound) => \A k \in 1..8 : InBits(WorkList(work)[k], 32)
        /\ (pc = "expand" /\ i < 64) =>
              /\ \A n \in {7, 18} : InBits(right_rotate(At(w, i - 15), n), 32)
              /\ \A n \in {17, 19} : InBits(right_rotate(At(w, i - 2), n), 32)
        /\ (pc = "rounds" /\ i < 64) =>
              /\ \A n \in {6, 11, 25} : InBits(right_rotate(work.e, n), 32)
              /\ \A n \in {2, 13, 22} : InBits(right_rotate(work.a, n), 32)

\* the first block of a two-block message has been folded and the second is due
C10_Witness ==
    /\ alg = "sha256" /\ pc = "rounds" /\ i = 64 /\ chunk_start = 64
    /\ BLen(message) = 128

=============================================================================
